---- MODULE Spec2Model ----
(***************************************************************************)
(* codesync (gitsync): the metadata registry for git repository            *)
(* replication.  The state is the two tables of the relational store       *)
(* (repositories, replication_targets); the operations are the three HTTP  *)
(* handlers CreateRepository, ListRepositories and CreateTarget.  Every    *)
(* store round trip of a handler is one atomic step, so that concurrent    *)
(* requests interleave between their round trips as they do on a           *)
(* worker-per-request server.                                              *)
(***************************************************************************)
EXTENDS Integers, Sequences, FiniteSets, TLC

(***************************************************************************)
(* Bounds of the model.                                                    *)
(***************************************************************************)
NumProcs == 2
MaxRequests == 2
MaxClock == 1
MaxStarts == 2

(***************************************************************************)
(* HTTP status codes written by the handlers.                              *)
(***************************************************************************)
StatusOK == 200
StatusCreated == 201
StatusBadRequest == 400
StatusNotFound == 404
StatusConflict == 409
StatusInternalServerError == 500
\* No response has been written yet.
NoStatus == 0

(***************************************************************************)
(* The strings of the requests and their spelling, character by character, *)
(* so that TrimSpace and HasPrefix are computed on the characters as the   *)
(* Go functions do.                                                        *)
(***************************************************************************)
HttpsPrefix == "https://"
SshPrefix == "ssh://"
Github == "github"
Gitlab == "gitlab"
Gitea == "gitea"
Bitbucket == "bitbucket"
Empty == ""
UrlA == "https://a"
UrlB == "ssh://b"

Spell(s) ==
    CASE s = "" -> <<>>
      [] s = " " -> <<" ">>
      [] s = "\n" -> <<"\n">>
      [] s = " \t" -> <<" ", "\t">>
      [] s = "s" -> <<"s">>
      [] s = "t" -> <<"t">>
      [] s = "github" -> <<"g", "i", "t", "h", "u", "b">>
      [] s = " github" -> <<" ", "g", "i", "t", "h", "u", "b">>
      [] s = "gitlab" -> <<"g", "i", "t", "l", "a", "b">>
      [] s = "gitea" -> <<"g", "i", "t", "e", "a">>
      [] s = "bitbucket" -> <<"b", "i", "t", "b", "u", "c", "k", "e", "t">>
      [] s = "https://" -> <<"h", "t", "t", "p", "s", ":", "/", "/">>
      [] s = "ssh://" -> <<"s", "s", "h", ":", "/", "/">>
      [] s = "https://a" -> <<"h", "t", "t", "p", "s", ":", "/", "/", "a">>
      [] s = " https://a" -> <<" ", "h", "t", "t", "p", "s", ":", "/", "/", "a">>
      [] s = "ssh://b" -> <<"s", "s", "h", ":", "/", "/", "b">>
      [] s = "ftp://x" -> <<"f", "t", "p", ":", "/", "/", "x">>

allowedProviders == {Github, Gitlab, Gitea}

IsSpace(c) == c \in {" ", "\t", "\n", "\r"}

RECURSIVE TrimLeft(_)
TrimLeft(cs) ==
    IF cs # <<>> /\ IsSpace(Head(cs)) THEN TrimLeft(Tail(cs)) ELSE cs

RECURSIVE TrimRight(_)
TrimRight(cs) ==
    IF cs # <<>> /\ IsSpace(cs[Len(cs)])
    THEN TrimRight(SubSeq(cs, 1, Len(cs) - 1))
    ELSE cs

\* strings.TrimSpace(s), as the characters of the result.
TrimSpace(s) == TrimRight(TrimLeft(Spell(s)))

\* strings.HasPrefix(s, prefix)
HasPrefix(s, prefix) ==
    /\ Len(Spell(s)) >= Len(Spell(prefix))
    /\ SubSeq(Spell(s), 1, Len(Spell(prefix))) = Spell(prefix)

(***************************************************************************)
(* Request inputs.  A body is the raw JSON text seen through what          *)
(* json.Decode makes of it: a decoding error, or the request struct (an    *)
(* absent field decodes to the empty string).                              *)
(***************************************************************************)
Procs == 1 .. NumProcs

RepoBody(ok, name, provider, url) ==
    [wellFormed |-> ok, Name |-> name, SourceProvider |-> provider,
     SourceURL |-> url, Provider |-> Empty, RemoteURL |-> Empty]

TargetBody(ok, provider, url) ==
    [wellFormed |-> ok, Name |-> Empty, SourceProvider |-> Empty,
     SourceURL |-> Empty, Provider |-> provider, RemoteURL |-> url]

NoBody == RepoBody(TRUE, Empty, Empty, Empty)

RepoBodies ==
    { RepoBody(TRUE, "s", Github, UrlA),
      RepoBody(TRUE, "t", Gitlab, UrlA),
      RepoBody(TRUE, "s", Gitea, UrlB),
      RepoBody(FALSE, Empty, Empty, Empty),
      RepoBody(TRUE, " \t", Github, UrlA),
      RepoBody(TRUE, "s", " ", UrlA),
      RepoBody(TRUE, "s", Github, " "),
      RepoBody(TRUE, "s", Bitbucket, UrlA),
      RepoBody(TRUE, "s", " github", UrlA),
      RepoBody(TRUE, "s", Github, "ftp://x"),
      RepoBody(TRUE, "s", Github, " https://a") }

TargetBodies ==
    { TargetBody(TRUE, Github, UrlA),
      TargetBody(TRUE, Gitlab, UrlB),
      TargetBody(FALSE, Empty, Empty),
      TargetBody(TRUE, Empty, UrlA),
      TargetBody(TRUE, Bitbucket, UrlA),
      TargetBody(TRUE, Github, "\n"),
      TargetBody(TRUE, Github, "ftp://x") }

\* A path parameter that is not the text of a UUID: the store rejects the
\* comparison with the UUID column id.
NotAUUID == -1

VARIABLES repositories, replication_targets, nextRepoId, nextTargetId,
          now, started, proc, schema, boot

vars == <<repositories, replication_targets, nextRepoId, nextTargetId,
          now, started, proc, schema, boot>>

(***************************************************************************)
(* The local state of one request worker.  pc is the handler's position;   *)
(* kind, id and body are the request; rows, repos, created_at and ID are   *)
(* the handler's locals; status is the response status.  fault, prior,     *)
(* parent, alone, queries and inserted are history variables: whether a    *)
(* store call of this request failed, whether the row the request would    *)
(* create was already stored when the request arrived, whether the         *)
(* repository of a CreateTarget was stored then, whether no other request  *)
(* was in flight during this one, how many store round trips it issued,    *)
(* and whether it inserted a row.                                          *)
(***************************************************************************)
NilSlice == [null |-> TRUE, items |-> <<>>]

IdleProc ==
    [pc |-> "idle", kind |-> "none", id |-> NotAUUID, body |-> NoBody,
     created_at |-> 0, ID |-> 0, status |-> NoStatus,
     rows |-> <<>>, repos |-> NilSlice,
     fault |-> FALSE, prior |-> FALSE, parent |-> FALSE, alone |-> FALSE,
     queries |-> 0, inserted |-> FALSE]

InFlight(q) == proc[q].pc \notin {"idle", "done"}

\* A handler that has written its response returns before the scheduler
\* runs another step: returning touches nothing shared.
NoneDone == \A q \in DOMAIN proc : proc[q].pc # "done"

(***************************************************************************)
(* The schema migrator.  schema is the set of tables and indexes of the    *)
(* store; boot is the position of main: pc is "readdir" and "loop" inside  *)
(* RunMigrations, "serving" once the routes are served and "fatal" after   *)
(* log.Fatalf.  entries and i are the locals of RunMigrations; applied is  *)
(* the names it has printed as applied and failed the name its error       *)
(* carries; fault tells that a read or a round trip failed; starts counts  *)
(* the starts of the process.                                              *)
(***************************************************************************)
\* The files embedded by migrations/*.sql.
migrations == {"001_initial.sql", "002_executions.sql"}

\* The bytes of a file name, which Go's < on strings compares.
NameBytes(name) ==
    CASE name = "001_initial.sql" ->
           <<48, 48, 49, 95, 105, 110, 105, 116, 105, 97, 108,
             46, 115, 113, 108>>
      [] name = "002_executions.sql" ->
           <<48, 48, 50, 95, 101, 120, 101, 99, 117, 116, 105, 111, 110,
             115, 46, 115, 113, 108>>

RECURSIVE BytesLess(_, _)
BytesLess(a, b) ==
    IF b = <<>> THEN FALSE
    ELSE IF a = <<>> THEN TRUE
    ELSE IF Head(a) < Head(b) THEN TRUE
    ELSE IF Head(a) > Head(b) THEN FALSE
    ELSE BytesLess(Tail(a), Tail(b))

NameLess_Descending(a, b) == BytesLess(NameBytes(b), NameBytes(a))

\* entries[i].Name() < entries[j].Name()
NameLess(a, b) == BytesLess(NameBytes(a), NameBytes(b))

\* fs.ReadDir: the entries of the directory.  Every entry is a file, the
\* pattern *.sql embedding files only; the model lets the listing come in
\* any order, so that the order of application is the work of the sort.
ReadDir ==
    {e \in [1 .. Cardinality(migrations) -> migrations] :
        \A i, j \in DOMAIN e : i # j => e[i] # e[j]}

\* sort.Slice(entries, less): the same entries, none before one it is
\* less than.
SortSlice(entries) ==
    CHOOSE e \in ReadDir :
        /\ {e[i] : i \in DOMAIN e} = {entries[i] : i \in DOMAIN entries}
        /\ \A i, j \in DOMAIN e : i < j => ~NameLess(e[j], e[i])

\* The statements of a script in order: the table or index each creates and
\* the tables it refers to, which have to exist.
Statements(name) ==
    CASE name = "001_initial.sql" ->
           << [object |-> "repositories", references |-> {}],
              [object |-> "replication_targets",
               references |-> {"repositories"}],
              [object |-> "idx_replication_targets_repository_id",
               references |-> {"replication_targets"}] >>
      [] name = "002_executions.sql" ->
           << [object |-> "executions",
               references |-> {"repositories", "replication_targets"}] >>

AllObjects ==
    UNION {{Statements(n)[k].object : k \in DOMAIN Statements(n)} :
             n \in migrations}

ExecStatement_NoGuard(objects, st) ==
    IF st.object \in objects
    THEN [ok |-> FALSE, objects |-> objects]
    ELSE IF st.references \subseteq objects
         THEN [ok |-> TRUE, objects |-> objects \cup {st.object}]
         ELSE [ok |-> FALSE, objects |-> objects]

\* CREATE TABLE / INDEX IF NOT EXISTS: an object that exists is left as it
\* is, rows included; a new one needs the tables it refers to.
ExecStatement(objects, st) ==
    IF st.object \in objects
    THEN [ok |-> TRUE, objects |-> objects]
    ELSE IF st.references \subseteq objects
         THEN [ok |-> TRUE, objects |-> objects \cup {st.object}]
         ELSE [ok |-> FALSE, objects |-> objects]

RECURSIVE ExecStatements(_, _)
ExecStatements(objects, stmts) ==
    IF stmts = <<>> THEN [ok |-> TRUE, objects |-> objects]
    ELSE LET r == ExecStatement(objects, Head(stmts)) IN
         IF r.ok THEN ExecStatements(r.objects, Tail(stmts)) ELSE r

\* db.Exec(string(content)): the statements of one script travel in one
\* query message, which the store runs as one transaction: all of them
\* take effect or none.
ExecScript(objects, name) ==
    LET r == ExecStatements(objects, Statements(name)) IN
    IF r.ok THEN r ELSE [ok |-> FALSE, objects |-> objects]

\* main starts: RunMigrations is called before any route is served.
BootStart(n) ==
    [pc |-> "readdir", entries |-> <<>>, i |-> 0, applied |-> <<>>,
     failed |-> "", fault |-> FALSE, starts |-> n]

\* The tables the server may find at start: the store outlives the process.
\* Every such store is one a run of the handlers from the empty store leaves;
\* its rows were created before the clock of this run started at 0.
Repo1 ==
    [id |-> 1, name |-> "s", source_provider |-> Github,
     source_url |-> UrlA, created_at |-> -2]

Repo2 ==
    [id |-> 2, name |-> "s", source_provider |-> Gitea,
     source_url |-> UrlB, created_at |-> -1]

Target1 ==
    [id |-> 1, repository_id |-> 1, provider |-> Github,
     remote_url |-> UrlA, created_at |-> -1]

\* A store no migration has run on has no table; a store with tables has
\* all of them, the migrator having completed before any row was created.
InitialStores ==
    { [objects |-> {}, repos |-> {}, targets |-> {}],
      [objects |-> AllObjects, repos |-> {}, targets |-> {}],
      [objects |-> AllObjects, repos |-> {Repo1, Repo2},
       targets |-> {Target1}] }

Init ==
    /\ \E st \in InitialStores :
         /\ schema = st.objects
         /\ repositories = st.repos
         /\ replication_targets = st.targets
         /\ nextRepoId = Cardinality(st.repos) + 1
         /\ nextTargetId = Cardinality(st.targets) + 1
    /\ now = 0
    /\ started = 0
    /\ proc = [p \in Procs |-> IdleProc]
    /\ boot = BootStart(1)

\* The id in the path of a CreateTarget request: the id of a repository
\* created so far, the next id the store will assign (no repository has it
\* yet), or a text that is no UUID.
PathIds == {NotAUUID} \cup (1 .. nextRepoId)

\* A store round trip either succeeds or fails (connection loss, timeout).
FaultChoices == BOOLEAN

(***************************************************************************)
(* The queries of the handlers, evaluated on the current tables.           *)
(***************************************************************************)
SourceURLExists_AndName(req) ==
    \E r \in repositories :
        r.source_url = req.SourceURL /\ r.name = req.Name

\* SELECT EXISTS(SELECT 1 FROM repositories WHERE source_url = $1)
SourceURLExists(req) ==
    \E r \in repositories : r.source_url = req.SourceURL

RepositoryIdExists_Always(id) == TRUE

\* SELECT EXISTS(SELECT 1 FROM repositories WHERE id = $1); the foreign key
\* replication_targets.repository_id REFERENCES repositories(id) is the same
\* lookup made by the store on insert.
RepositoryIdExists(id) ==
    \E r \in repositories : r.id = id

TargetExists_AnyRepository(id, url) ==
    \E t \in replication_targets : t.remote_url = url

\* SELECT EXISTS(SELECT 1 FROM replication_targets
\*               WHERE repository_id = $1 AND remote_url = $2)
TargetExists(id, url) ==
    \E t \in replication_targets :
        t.repository_id = id /\ t.remote_url = url

(***************************************************************************)
(* Decoding and validation of the request bodies.                          *)
(***************************************************************************)
UrlSchemeOk_HttpsOnly(url) == HasPrefix(url, HttpsPrefix)

UrlSchemeOk(url) ==
    HasPrefix(url, HttpsPrefix) \/ HasPrefix(url, SshPrefix)

\* Decoding and validation of the body: the status of the first failed
\* check, NoStatus when all pass.
ValidateRepository(body) ==
    IF ~body.wellFormed THEN StatusBadRequest
    ELSE IF TrimSpace(body.Name) = <<>> THEN StatusBadRequest
    ELSE IF TrimSpace(body.SourceProvider) = <<>> THEN StatusBadRequest
    ELSE IF TrimSpace(body.SourceURL) = <<>> THEN StatusBadRequest
    ELSE IF body.SourceProvider \notin allowedProviders THEN StatusBadRequest
    ELSE IF ~UrlSchemeOk(body.SourceURL) THEN StatusBadRequest
    ELSE NoStatus

\* Decoding and validation of the body: the status of the first failed
\* check, NoStatus when all pass.
ValidateTarget(body) ==
    IF ~body.wellFormed THEN StatusBadRequest
    ELSE IF TrimSpace(body.Provider) = <<>> THEN StatusBadRequest
    ELSE IF body.Provider \notin allowedProviders THEN StatusBadRequest
    ELSE IF TrimSpace(body.RemoteURL) = <<>> THEN StatusBadRequest
    ELSE IF ~UrlSchemeOk(body.RemoteURL) THEN StatusBadRequest
    ELSE NoStatus

\* The outcome of validation for each body the model sends.
RepositoryValidation == [b \in RepoBodies |-> ValidateRepository(b)]

TargetValidation == [b \in TargetBodies |-> ValidateTarget(b)]

(***************************************************************************)
(* The server hands an arriving request to a handler goroutine: the first  *)
(* free worker, the workers being interchangeable.                         *)
(***************************************************************************)
CanArrive(p) ==
    /\ boot.pc = "serving"
    /\ proc[p].pc = "idle"
    /\ started < MaxRequests
    /\ \A o \in Procs : o < p => proc[o].pc # "idle"
    /\ NoneDone

Arrive(p, rec) ==
    /\ started' = started + 1
    /\ proc' = [q \in Procs |->
                  IF q = p
                  THEN [rec EXCEPT !.alone = \A o \in Procs \ {p} : ~InFlight(o)]
                  ELSE IF InFlight(q)
                       THEN [proc[q] EXCEPT !.alone = FALSE]
                       ELSE proc[q]]
    /\ UNCHANGED <<repositories, replication_targets, nextRepoId,
                   nextTargetId, now,
                   schema, boot>>

\* CreateRepository starts: the body is decoded and validated, which
\* touches no store; a rejected request is answered 400 at once.
ReceiveCreateRepository(p) ==
    /\ CanArrive(p)
    /\ \E body \in RepoBodies :
         LET rec == [IdleProc EXCEPT !.kind = "CreateRepository",
                                    !.body = body,
                                    !.prior = \E r \in repositories :
                                        r.source_url = body.SourceURL]
        IN
        IF RepositoryValidation[body] # NoStatus
        THEN Arrive(p, [rec EXCEPT !.pc = "done",
                                   !.status = RepositoryValidation[body]])
        ELSE Arrive(p, [rec EXCEPT !.pc = "cr_check"])

ReceiveCreateTarget(p) ==
    /\ CanArrive(p)
    /\ \E id \in PathIds, body \in TargetBodies :
        Arrive(p, [IdleProc EXCEPT !.pc = "ct_repo",
                                   !.kind = "CreateTarget",
                                   !.id = id,
                                   !.body = body,
                                   !.parent = \E r \in repositories : r.id = id,
                                   !.prior = \E t \in replication_targets :
                                       /\ t.repository_id = id
                                       /\ t.remote_url = body.RemoteURL])

ReceiveListRepositories(p) ==
    /\ CanArrive(p)
    /\ Arrive(p, [IdleProc EXCEPT !.pc = "l_query",
                                  !.kind = "ListRepositories"])

\* The response has been written and the handler returns.
Respond(p, rec, code) ==
    proc' = [proc EXCEPT ![p] = [rec EXCEPT !.pc = "done", !.status = code]]

Return(p) ==
    /\ proc[p].pc = "done"
    /\ proc' = [proc EXCEPT ![p] = IdleProc]
    /\ UNCHANGED <<repositories, replication_targets, nextRepoId,
                   nextTargetId, now, started,
                   schema, boot>>

\* time.Now(): a reading is never before an earlier one.  The clock is
\* observed only where a handler reads it, so time passes at the readings.
TimeNow == now .. MaxClock

(***************************************************************************)
(* CreateRepository: POST /repositories.                                   *)
(***************************************************************************)
\* The existence query on source_url; when no row has it the handler
\* builds the repository, CreatedAt: time.Now().
CreateRepository_Check(p) ==
    LET me == proc[p] IN
    /\ me.pc = "cr_check"
    /\ NoneDone
    /\ UNCHANGED <<repositories, replication_targets, nextRepoId,
                   nextTargetId, started,
                   schema, boot>>
    /\ \E fail \in FaultChoices :
         LET q == [me EXCEPT !.queries = @ + 1] IN
         IF fail
         THEN /\ Respond(p, [q EXCEPT !.fault = TRUE],
                         StatusInternalServerError)
              /\ UNCHANGED now
         ELSE IF SourceURLExists(me.body)
              THEN /\ Respond(p, q, StatusConflict)
                   /\ UNCHANGED now
              ELSE \E t \in TimeNow :
                     /\ now' = t
                     /\ proc' = [proc EXCEPT ![p] =
                          [q EXCEPT !.pc = "cr_insert", !.created_at = t]]

InsertRow_Only(table, row) == {row}

\* INSERT INTO table ... VALUES (...): the table gains the row and keeps
\* the rows it has.
InsertRow(table, row) == table \cup {row}

\* The column default gen_random_uuid() draws the id of a new row.  A draw
\* is either a value some stored row has or a value no row has; the values
\* no row has are interchangeable, so the model names the one it draws
\* nextRepoId.  No operation deletes a row, so the ids below nextRepoId are
\* those of the stored rows.
gen_random_uuid == 1 .. nextRepoId

RepositoryPrimaryKeyOk_Off(id) == TRUE

\* id UUID PRIMARY KEY: the store rejects a row whose id a stored row has.
RepositoryPrimaryKeyOk(id) == \A r \in repositories : r.id # id

\* INSERT INTO repositories ... RETURNING id.  The statement fails when the
\* round trip fails or the primary key rejects the row; the handler answers
\* 500 either way.
CreateRepository_Insert(p) ==
    LET me == proc[p] IN
    /\ me.pc = "cr_insert"
    /\ NoneDone
    /\ UNCHANGED <<replication_targets, nextTargetId, now, started,
                   schema, boot>>
    /\ \E fail \in FaultChoices, id \in gen_random_uuid :
         LET q == [me EXCEPT !.queries = @ + 1] IN
         IF fail \/ ~RepositoryPrimaryKeyOk(id)
         THEN /\ Respond(p, [q EXCEPT !.fault = TRUE],
                         StatusInternalServerError)
              /\ UNCHANGED <<repositories, nextRepoId>>
         ELSE /\ repositories' = InsertRow(repositories,
                   [id |-> id, name |-> me.body.Name,
                    source_provider |-> me.body.SourceProvider,
                    source_url |-> me.body.SourceURL,
                    created_at |-> me.created_at])
              /\ nextRepoId' = IF id = nextRepoId THEN nextRepoId + 1
                               ELSE nextRepoId
              /\ Respond(p, [q EXCEPT !.ID = id, !.inserted = TRUE],
                         StatusCreated)

(***************************************************************************)
(* CreateTarget: POST /repositories/{id}/targets.                          *)
(***************************************************************************)
CheckRepoStatus_ErrOnly(err, exists) ==
    IF err /\ ~exists THEN StatusNotFound ELSE NoStatus

\* if err != nil || !exists { http.Error(w, "repository not found", 404) }
CheckRepoStatus(err, exists) ==
    IF err \/ ~exists THEN StatusNotFound ELSE NoStatus

\* The existence query on the repository id.  The query fails when the
\* round trip fails, and also when the path parameter is not a UUID; Scan
\* leaves exists at its zero value then.  (fault records the failures of
\* the round trip only, not the rejection of a malformed id.)  When the
\* repository is found the body is decoded and validated, which touches no
\* store.
CreateTarget_CheckRepo(p) ==
    LET me == proc[p] IN
    /\ me.pc = "ct_repo"
    /\ NoneDone
    /\ UNCHANGED <<repositories, replication_targets, nextRepoId,
                   nextTargetId, now, started,
                   schema, boot>>
    /\ \E fail \in (IF me.id = NotAUUID THEN {FALSE} ELSE FaultChoices) :
         LET err == fail \/ me.id = NotAUUID
             exists == ~err /\ RepositoryIdExists(me.id)
             q == [me EXCEPT !.queries = @ + 1, !.fault = fail]
         IN
         IF CheckRepoStatus(err, exists) # NoStatus
         THEN Respond(p, q, CheckRepoStatus(err, exists))
         ELSE IF TargetValidation[me.body] # NoStatus
              THEN Respond(p, q, TargetValidation[me.body])
              ELSE proc' = [proc EXCEPT ![p] = [q EXCEPT !.pc = "ct_check"]]

\* The existence query on (repository_id, remote_url); when no row has the
\* pair the handler builds the target, CreatedAt: time.Now().
CreateTarget_Check(p) ==
    LET me == proc[p] IN
    /\ me.pc = "ct_check"
    /\ NoneDone
    /\ UNCHANGED <<repositories, replication_targets, nextRepoId,
                   nextTargetId, started,
                   schema, boot>>
    /\ \E fail \in FaultChoices :
         LET q == [me EXCEPT !.queries = @ + 1] IN
         IF fail
         THEN /\ Respond(p, [q EXCEPT !.fault = TRUE],
                         StatusInternalServerError)
              /\ UNCHANGED now
         ELSE IF TargetExists(me.id, me.body.RemoteURL)
              THEN /\ Respond(p, q, StatusConflict)
                   /\ UNCHANGED now
              ELSE \E t \in TimeNow :
                     /\ now' = t
                     /\ proc' = [proc EXCEPT ![p] =
                          [q EXCEPT !.pc = "ct_insert", !.created_at = t]]

\* INSERT INTO replication_targets ... RETURNING id.  The store rejects the
\* row when its repository_id references no repository (foreign key).
CreateTarget_Insert(p) ==
    LET me == proc[p] IN
    /\ me.pc = "ct_insert"
    /\ NoneDone
    /\ UNCHANGED <<repositories, nextRepoId, now, started,
                   schema, boot>>
    /\ \E fail \in FaultChoices :
         LET q == [me EXCEPT !.queries = @ + 1] IN
         IF fail \/ ~RepositoryIdExists(me.id)
         THEN /\ Respond(p, [q EXCEPT !.fault = fail],
                         StatusInternalServerError)
              /\ UNCHANGED <<replication_targets, nextTargetId>>
         ELSE /\ replication_targets' = InsertRow(replication_targets,
                   [id |-> nextTargetId, repository_id |-> me.id,
                    provider |-> me.body.Provider,
                    remote_url |-> me.body.RemoteURL,
                    created_at |-> me.created_at])
              /\ nextTargetId' = nextTargetId + 1
              /\ Respond(p, [q EXCEPT !.ID = nextTargetId, !.inserted = TRUE],
                         StatusCreated)

(***************************************************************************)
(* ListRepositories: GET /repositories.                                    *)
(***************************************************************************)
\* r may come first in ORDER BY created_at DESC over the rows S.
OrderByCreatedAt(S, r) == \A y \in S : y.created_at <= r.created_at

\* The result sets ORDER BY created_at DESC may deliver: rows of equal
\* created_at come in either order.
RECURSIVE OrderByCreatedAtDesc(_)
OrderByCreatedAtDesc(S) ==
    IF S = {} THEN {<<>>}
    ELSE UNION { { <<r>> \o rest : rest \in OrderByCreatedAtDesc(S \ {r}) } :
                 r \in {x \in S : OrderByCreatedAt(S, x)} }

TargetsOf_All(id) == replication_targets

\* SELECT ... FROM replication_targets WHERE repository_id = $1
TargetsOf(id) == {t \in replication_targets : t.repository_id = id}

\* repos = append(repos, repo): the slice is no longer nil.
AppendRepo(repos, repo) == [null |-> FALSE, items |-> Append(repos.items, repo)]

\* if repos == nil { repos = []models.Repository{} }; the encoder writes a
\* nil slice as null and an empty one as [].
EncodeRepos(repos) == IF repos.null THEN [null |-> FALSE, items |-> <<>>] ELSE repos

\* SELECT ... FROM repositories ORDER BY created_at DESC
ListRepositories_Query(p) ==
    LET me == proc[p] IN
    /\ me.pc = "l_query"
    /\ NoneDone
    /\ UNCHANGED <<repositories, replication_targets, nextRepoId,
                   nextTargetId, now, started,
                   schema, boot>>
    /\ \E fail \in FaultChoices :
         LET q == [me EXCEPT !.queries = @ + 1] IN
         IF fail
         THEN /\ Respond(p, [q EXCEPT !.fault = TRUE],
                         StatusInternalServerError)
         ELSE /\ \E ord \in OrderByCreatedAtDesc(repositories) :
                   proc' = [proc EXCEPT ![p] =
                              [q EXCEPT !.pc = "l_next", !.rows = ord]]

\* rows.Next() is false, at the end of the result set or on an error of the
\* iteration: the loop ends and the handler encodes what it has collected.
\* rows.Err() is not consulted.
ListRepositories_Finish(p, me) ==
    Respond(p, [me EXCEPT !.rows = <<>>, !.repos = EncodeRepos(me.repos)],
            StatusOK)

\* One turn of the loop over the repositories: rows.Next(), rows.Scan, the
\* query of the repository's targets and the loop over them.
ListRepositories_Next(p) ==
    LET me == proc[p] IN
    /\ me.pc = "l_next"
    /\ NoneDone
    /\ UNCHANGED <<repositories, replication_targets, nextRepoId,
                   nextTargetId, now, started,
                   schema, boot>>
    /\ \/ /\ me.rows = <<>>
          /\ ListRepositories_Finish(p, me)
       \/ /\ me.rows # <<>>
          /\ LET repo == Head(me.rows)
                 all == TargetsOf(repo.id)
                 q == [me EXCEPT !.queries = @ + 1, !.rows = Tail(me.rows)]
             IN
             \/ \* the row is scanned and all its targets are read
                /\ proc' = [proc EXCEPT ![p] =
                     [q EXCEPT !.repos = AppendRepo(me.repos,
                                 [repo |-> repo, Targets |-> all])]]
             \/ \* rows.Next() fails part-way through the repositories
                /\ ListRepositories_Finish(p, [me EXCEPT !.fault = TRUE])
             \/ \* rows.Scan, the targets query or targetRows.Scan fails
                /\ Respond(p, [q EXCEPT !.fault = TRUE],
                           StatusInternalServerError)
             \/ \* targetRows.Next() fails part-way through the targets
                /\ \E got \in (SUBSET all) \ {all} :
                     proc' = [proc EXCEPT ![p] =
                       [q EXCEPT !.fault = TRUE,
                                 !.repos = AppendRepo(me.repos,
                                   [repo |-> repo, Targets |-> got])]]

(***************************************************************************)
(* RunMigrations, called by main before the routes are served.             *)
(***************************************************************************)
\* fs.ReadDir and sort.Slice.  A failed listing is returned as an error
\* that names no script.
RunMigrations_ReadDir ==
    /\ boot.pc = "readdir"
    /\ UNCHANGED <<repositories, replication_targets, nextRepoId,
                   nextTargetId, now, started, proc, schema>>
    /\ \E fail \in FaultChoices :
         IF fail
         THEN boot' = [boot EXCEPT !.pc = "fatal", !.fault = TRUE]
         ELSE \E entries \in ReadDir :
                boot' = [boot EXCEPT !.pc = "loop",
                                     !.entries = SortSlice(entries),
                                     !.i = 1]

\* One turn of the loop: the script is read and executed.  A failure of
\* either is returned with the script's name and main ends in log.Fatalf;
\* after the last script RunMigrations returns nil and main serves.
RunMigrations_Apply ==
    LET migrationName == boot.entries[boot.i] IN
    /\ boot.pc = "loop"
    /\ UNCHANGED <<repositories, replication_targets, nextRepoId,
                   nextTargetId, now, started, proc>>
    /\ \E readFails \in FaultChoices, execFails \in FaultChoices :
         LET r == ExecScript(schema, migrationName) IN
         IF readFails \/ execFails
         THEN /\ boot' = [boot EXCEPT !.pc = "fatal",
                                      !.failed = migrationName,
                                      !.fault = TRUE]
              /\ UNCHANGED schema
         ELSE IF ~r.ok
         THEN /\ boot' = [boot EXCEPT !.pc = "fatal",
                                      !.failed = migrationName]
              /\ UNCHANGED schema
         ELSE /\ schema' = r.objects
              /\ boot' = [boot EXCEPT
                   !.pc = IF boot.i = Len(boot.entries) THEN "serving"
                          ELSE "loop",
                   !.i = @ + 1,
                   !.applied = Append(@, migrationName)]

\* The process ends, by log.Fatalf or by being stopped while it serves, and
\* is started again on the same store.  The requests in flight end with it.
Restart ==
    /\ boot.pc \in {"fatal", "serving"}
    /\ boot.starts < MaxStarts
    /\ NoneDone
    /\ boot' = BootStart(boot.starts + 1)
    /\ proc' = [p \in Procs |-> IdleProc]
    /\ UNCHANGED <<repositories, replication_targets, nextRepoId,
                   nextTargetId, now, started, schema>>

Next ==
    \/ RunMigrations_ReadDir
    \/ RunMigrations_Apply
    \/ Restart
    \/ \E p \in Procs : ReceiveCreateRepository(p)
    \/ \E p \in Procs : CreateRepository_Check(p)
    \/ \E p \in Procs : CreateRepository_Insert(p)
    \/ \E p \in Procs : ReceiveCreateTarget(p)
    \/ \E p \in Procs : CreateTarget_CheckRepo(p)
    \/ \E p \in Procs : CreateTarget_Check(p)
    \/ \E p \in Procs : CreateTarget_Insert(p)
    \/ \E p \in Procs : ReceiveListRepositories(p)
    \/ \E p \in Procs : ListRepositories_Query(p)
    \/ \E p \in Procs : ListRepositories_Next(p)
    \/ \E p \in Procs : Return(p)

Spec == Init /\ [][Next]_vars

(***************************************************************************)
(* The properties of the registry.                                         *)
(***************************************************************************)
Done(p) == proc[p].pc = "done"

Finished(p, kind) == Done(p) /\ proc[p].kind = kind

\* The input constraints of CreateRepository as the specification states them.
RepositoryConstraintsHold(b) ==
    /\ TrimSpace(b.Name) # <<>>
    /\ TrimSpace(b.SourceProvider) # <<>>
    /\ TrimSpace(b.SourceURL) # <<>>
    /\ b.SourceProvider \in {Github, Gitlab, Gitea}
    /\ HasPrefix(b.SourceURL, HttpsPrefix) \/ HasPrefix(b.SourceURL, SshPrefix)

\* The input constraints of CreateTarget as the specification states them.
TargetConstraintsHold(b) ==
    /\ b.Provider \in {Github, Gitlab, Gitea}
    /\ TrimSpace(b.RemoteURL) # <<>>
    /\ HasPrefix(b.RemoteURL, HttpsPrefix) \/ HasPrefix(b.RemoteURL, SshPrefix)

\* C1: in every reachable state of the store, concurrent CreateRepository
\* requests included, no two repository rows have the same source_url.
C1_SourceURLUnique ==
    \A a, b \in repositories : a.source_url = b.source_url => a.id = b.id

\* C2: in every reachable state of the store, concurrent CreateTarget
\* requests included, no two replication_targets rows have the same
\* (repository_id, remote_url) pair.
C2_TargetPairUnique ==
    \A a, b \in replication_targets :
        (a.repository_id = b.repository_id /\ a.remote_url = b.remote_url)
            => a.id = b.id

\* C3: a valid CreateRepository request that meets no store failure is
\* answered 409 when a repository with its source_url had been created
\* before the request arrived, whatever its name and source_provider; and it
\* is answered 201 when no such repository was stored at its arrival and no
\* other request ran during it.
C3_SecondSameURLConflicts ==
    \A p \in Procs :
        (/\ Finished(p, "CreateRepository")
         /\ proc[p].body.wellFormed
         /\ RepositoryConstraintsHold(proc[p].body)
         /\ ~proc[p].fault)
        => /\ proc[p].prior => proc[p].status = StatusConflict
           /\ (~proc[p].prior /\ proc[p].alone)
                 => proc[p].status = StatusCreated

\* The second of two sequential requests with one source_url, carrying
\* another name and provider than the first, created during this run, is
\* answered 409.
C3_Witness ==
    \E p \in Procs :
        /\ Finished(p, "CreateRepository")
        /\ proc[p].prior /\ proc[p].alone /\ ~proc[p].fault
        /\ proc[p].status = StatusConflict
        /\ \E r \in repositories :
             /\ r.created_at >= 0
             /\ r.source_url = proc[p].body.SourceURL
             /\ r.name # proc[p].body.Name
             /\ r.source_provider # proc[p].body.SourceProvider

\* C4: a valid CreateTarget request naming a repository stored at its
\* arrival, and meeting no store failure, is answered 409 when a target with
\* the same remote_url under the same repository was stored at its arrival;
\* it is answered 201 when none was and no other request ran during it, even
\* when another repository has a target with that remote_url.
C4_SecondSamePairConflicts ==
    \A p \in Procs :
        (/\ Finished(p, "CreateTarget")
         /\ proc[p].body.wellFormed
         /\ TargetConstraintsHold(proc[p].body)
         /\ proc[p].parent
         /\ ~proc[p].fault)
        => /\ proc[p].prior => proc[p].status = StatusConflict
           /\ (~proc[p].prior /\ proc[p].alone)
                 => proc[p].status = StatusCreated

\* A target is created with the remote_url a target of another repository
\* already has.
C4_Witness ==
    \E p \in Procs :
        /\ Finished(p, "CreateTarget")
        /\ proc[p].alone /\ ~proc[p].prior
        /\ proc[p].status = StatusCreated
        /\ \E t \in replication_targets :
             /\ t.repository_id # proc[p].id
             /\ t.remote_url = proc[p].body.RemoteURL
        /\ \E t \in replication_targets :
             /\ t.id = proc[p].ID
             /\ t.repository_id = proc[p].id
             /\ t.remote_url = proc[p].body.RemoteURL

\* C5: in every reachable state every replication_targets row has the
\* repository_id of a repository row present in the store.
C5_TargetHasRepository ==
    \A t \in replication_targets :
        \E r \in repositories : r.id = t.repository_id

\* A target created during this run is stored.
C5_Witness ==
    \E t \in replication_targets :
        /\ t.created_at >= 0
        /\ \E r \in repositories : r.id = t.repository_id /\ r.created_at >= 0

\* C6: a CreateTarget request whose repository id matches no repository row
\* is answered 404 after the one existence query and inserts nothing,
\* whatever its body.
C6_UnknownRepositoryNotFound ==
    \A p \in Procs :
        (/\ Finished(p, "CreateTarget")
         /\ ~\E r \in repositories : r.id = proc[p].id)
        => /\ proc[p].status = StatusNotFound
           /\ ~proc[p].inserted
           /\ proc[p].queries = 1
           /\ ~\E t \in replication_targets : t.repository_id = proc[p].id

\* A request with an undecodable body and a well-formed, unknown id is
\* answered 404.
C6_Witness ==
    \E p \in Procs :
        /\ Finished(p, "CreateTarget")
        /\ proc[p].id # NotAUUID
        /\ ~\E r \in repositories : r.id = proc[p].id
        /\ ~proc[p].body.wellFormed
        /\ ~proc[p].fault
        /\ proc[p].status = StatusNotFound

\* C7: every store failure met while handling CreateTarget is answered 500.
C7_StoreFailureIs500 ==
    \A p \in Procs :
        (Finished(p, "CreateTarget") /\ proc[p].fault)
            => proc[p].status = StatusInternalServerError

\* C8: ListRepositories answers 500 on any read failure.
C8_ReadFailureIs500 ==
    \A p \in Procs :
        (Finished(p, "ListRepositories") /\ proc[p].fault)
            => proc[p].status = StatusInternalServerError

\* The listing repos, as answered, is exactly the store: every repository
\* once, by created_at descending, each with exactly its targets.
ListingIsStore(repos) ==
    /\ ~repos.null
    /\ Len(repos.items) = Cardinality(repositories)
    /\ {repos.items[i].repo : i \in 1 .. Len(repos.items)} = repositories
    /\ \A i, j \in 1 .. Len(repos.items) :
         i < j => repos.items[i].repo.created_at >= repos.items[j].repo.created_at
    /\ \A i \in 1 .. Len(repos.items) :
         repos.items[i].Targets =
           {t \in replication_targets :
              t.repository_id = repos.items[i].repo.id}

\* C9: with no request running concurrently and no read failure,
\* ListRepositories answers 200 with exactly the repositories in the store,
\* by created_at descending, each with exactly the set of its targets; an
\* empty array on an empty store.
C9_ListingComplete ==
    \A p \in Procs :
        (Finished(p, "ListRepositories") /\ proc[p].alone /\ ~proc[p].fault)
        => /\ proc[p].status = StatusOK
           /\ ListingIsStore(proc[p].repos)

\* A listing made alone of two repositories, the later created first, one
\* with two targets of which one was created during this run, the other
\* with none.
C9_Witness ==
    \E p \in Procs :
        /\ Finished(p, "ListRepositories")
        /\ proc[p].alone /\ ~proc[p].fault
        /\ proc[p].status = StatusOK
        /\ Len(proc[p].repos.items) = 2
        /\ proc[p].repos.items[1].repo.created_at
             > proc[p].repos.items[2].repo.created_at
        /\ \E i \in 1 .. 2 : proc[p].repos.items[i].Targets = {}
        /\ \E i \in 1 .. 2 :
             /\ Cardinality(proc[p].repos.items[i].Targets) = 2
             /\ \E t \in proc[p].repos.items[i].Targets : t.created_at >= 0

\* C10: a decodable CreateRepository request that violates an input
\* constraint is answered 400 without any store round trip or insert; one
\* that satisfies them all is never answered 400.
C10_ValidationBeforeStore ==
    \A p \in Procs :
        (Finished(p, "CreateRepository") /\ proc[p].body.wellFormed)
        => IF RepositoryConstraintsHold(proc[p].body)
           THEN proc[p].status # StatusBadRequest
           ELSE /\ proc[p].status = StatusBadRequest
                /\ proc[p].queries = 0
                /\ ~proc[p].inserted

\* A request whose source_url is non-blank but starts with a space is
\* answered 400 with no store round trip.
C10_Witness ==
    \E p \in Procs :
        /\ Finished(p, "CreateRepository")
        /\ proc[p].body.wellFormed
        /\ TrimSpace(proc[p].body.SourceURL) # <<>>
        /\ TrimSpace(proc[p].body.SourceURL) # Spell(proc[p].body.SourceURL)
        /\ proc[p].body.SourceProvider \in allowedProviders
        /\ proc[p].status = StatusBadRequest
        /\ proc[p].queries = 0

\* C11: every CreateRepository request answered 201 has persisted a row with
\* the request's name, source_provider and source_url under the identifier
\* it returns, and no two rows of repositories share an identifier: rows are
\* never deleted, so the rows are all the creations, earlier and concurrent,
\* and an identifier is assigned once.
C11_IdentifierNewAndEcho ==
    /\ \A r, s \in repositories : r.id = s.id => r = s
    /\ \A p \in Procs :
         (Finished(p, "CreateRepository") /\ proc[p].status = StatusCreated)
         => {r \in repositories : r.id = proc[p].ID} =
              {[id |-> proc[p].ID, name |-> proc[p].body.Name,
                source_provider |-> proc[p].body.SourceProvider,
                source_url |-> proc[p].body.SourceURL,
                created_at |-> proc[p].created_at]}

\* A repository is created by a request that overlapped another request,
\* which created a repository during this run too.
C11_Witness ==
    \E p \in Procs :
        /\ Finished(p, "CreateRepository")
        /\ proc[p].status = StatusCreated
        /\ ~proc[p].alone
        /\ \E r \in repositories :
             /\ r.id # proc[p].ID
             /\ r.created_at >= 0

\* The scripts by ascending file name.
AscendingScripts == <<"001_initial.sql", "002_executions.sql">>

\* The tables and indexes the script named name creates.
ObjectsOf(name) ==
    IF name = "001_initial.sql"
    THEN {"repositories", "replication_targets",
          "idx_replication_targets_repository_id"}
    ELSE {"executions"}

\* C12: RunMigrations executes the scripts by ascending file name, each at
\* most once per run: what it has applied is at every moment the first
\* scripts of that order, and their tables exist.  It returns nil only when
\* it has applied them all; a failure of a script is returned with the name
\* of the first script not applied, so that every script before it has been
\* applied and none after it executed.
C12_MigrationsInOrder ==
    /\ Len(boot.applied) <= Len(AscendingScripts)
    /\ boot.applied = SubSeq(AscendingScripts, 1, Len(boot.applied))
    /\ \A k \in 1 .. Len(boot.applied) :
         ObjectsOf(boot.applied[k]) \subseteq schema
    /\ boot.pc = "serving" => boot.applied = AscendingScripts
    /\ boot.pc = "fatal" =>
         \/ boot.failed = "" /\ boot.applied = <<>>
         \/ /\ Len(boot.applied) < Len(AscendingScripts)
            /\ boot.failed = AscendingScripts[Len(boot.applied) + 1]
    /\ boot.failed # "" => boot.pc = "fatal"

\* On a store without tables the first script is applied and the second
\* fails: main ends with the second script's name, the tables of the first
\* exist and the table of the second does not.
C12_Witness ==
    /\ boot.pc = "fatal"
    /\ boot.starts = 1
    /\ boot.failed = "002_executions.sql"
    /\ boot.applied = <<"001_initial.sql">>
    /\ "replication_targets" \in schema
    /\ "executions" \notin schema

\* C13: RunMigrations on a store where it has completed, every table and
\* index being there, changes no table, index or row at any step, and fails
\* only when a read or a round trip to the store fails.
C13_MigrationsIdempotent ==
    [][(/\ boot.pc \in {"readdir", "loop"}
        /\ {"repositories", "replication_targets", "executions",
            "idx_replication_targets_repository_id"} \subseteq schema)
       => /\ schema' = schema
          /\ repositories' = repositories
          /\ replication_targets' = replication_targets
          /\ (boot'.pc = "fatal" => boot'.fault)]_vars

\* The process has started a second time and serves again, after its first
\* start created the tables, a repository and a target.
C13_Witness ==
    /\ boot.pc = "serving"
    /\ boot.starts = MaxStarts
    /\ started = MaxRequests
    /\ \A p \in Procs : proc[p].pc = "idle"
    /\ \E r \in repositories :
         /\ r.created_at >= 0
         /\ \E t \in replication_targets :
              t.repository_id = r.id /\ t.created_at >= 0

\* C14: no step removes or changes a row of repositories or of
\* replication_targets.  The step by which a request is answered 201 adds
\* exactly one row, to repositories for CreateRepository and to
\* replication_targets for CreateTarget, and leaves the other table as it
\* is; every other step of any request, whatever it is answered, leaves both
\* tables unchanged.
C14_OnlyCreatedAddsOneRow ==
    [][/\ repositories \subseteq repositories'
       /\ replication_targets \subseteq replication_targets'
       /\ IF \E p \in Procs : /\ proc[p].pc # "done"
                              /\ proc'[p].pc = "done"
                              /\ proc'[p].status = StatusCreated
          THEN \E p \in Procs :
                 /\ proc[p].pc # "done"
                 /\ proc'[p].pc = "done"
                 /\ proc'[p].status = StatusCreated
                 /\ \/ /\ proc'[p].kind = "CreateRepository"
                       /\ Cardinality(repositories' \ repositories) = 1
                       /\ replication_targets' = replication_targets
                    \/ /\ proc'[p].kind = "CreateTarget"
                       /\ Cardinality(replication_targets'
                                        \ replication_targets) = 1
                       /\ repositories' = repositories
          ELSE /\ repositories' = repositories
               /\ replication_targets' = replication_targets]_vars

\* A CreateRepository request is answered 409 and has inserted nothing,
\* because a request that arrived after it created the repository first.
C14_Witness ==
    \E p \in Procs :
        /\ Finished(p, "CreateRepository")
        /\ proc[p].status = StatusConflict
        /\ ~proc[p].prior
        /\ ~proc[p].inserted
        /\ \E r \in repositories :
             /\ r.source_url = proc[p].body.SourceURL
             /\ r.created_at >= 0

====
